---- MODULE Spec2Model ----
(***************************************************************************)
(* Substrate indexer: the session manager (substrate_indexer/manager.py),  *)
(* the control-plane handlers (substrate_indexer/__main__.py), the Indexer *)
(* task (substrate_indexer/indexer.py) and the DBWriter task               *)
(* (substrate_indexer/dbwriter.py).                                        *)
(*                                                                         *)
(* Scheduling is gevent's: one handler or task runs at a time and gives up *)
(* control only where it blocks on I/O (a node RPC, the node connection in *)
(* a constructor) or sleeps.  Every action below is the code between two   *)
(* such points.                                                            *)
(*                                                                         *)
(* manager.py constructs Manager() and Indexer(...) without the socketio   *)
(* handle that __main__.py passes and indexer.py expects; the model takes   *)
(* the handle to be passed through, as __main__.py and indexer.py have it. *)
(***************************************************************************)
EXTENDS Integers, Sequences, FiniteSets, TLC

\* ------------------------------------------------------------- bounds
MaxWriters == 2      \* DBWriter objects constructed in one run
MaxIndexers == 2     \* Indexer objects constructed in one run
MaxRequests == 3     \* control-plane requests received in one run
MaxBlock == 13       \* head of the node's chain in a run with one client
ShortChain == 3      \* head of the node's chain in a run with two clients
MaxFeeMantissa == 30 \* a receipt's fee is m * 10^z with m up to this
MaxFeeZeros == 10    \* and z up to this
MaxCeiling == 10     \* the largest ceiling a queue could be given
MaxWeight == 2       \* a node's weight_block (its last block) is up to this

\* ------------------------------------------------------------- program constants
REQUEST_BLOCK_RETRY_TIMES == 2
REQUEST_RECEIPT_DATA_TIMES == 2
MIN_NUMBER_QUEUE_ITEMS_BEFORE_PROCESS == 10
MAX_NUMBER_QUEUE_ITEMS_TO_PROCESS == 10

\* ------------------------------------------------------------- domains
Sids == {"A", "B"}
Chains == {"Kusama"}
Addresses == {"addr1", "addr2"}
WriterObjs == 1..MaxWriters
IndexerObjs == 1..MaxIndexers
None == 0            \* a missing dict key / a null value
NoHash == <<>>

RequestKinds == {"start_indexer", "start_indexer_bad", "start_indexer_unexpected",
                 "start_indexing", "start_indexing_bad", "start_indexing_unexpected"}
Codes == {"start_indexer_0001", "start_indexer_0002",
          "start_indexing_0001", "start_indexing_0002",
          "get_address_block_extrinsics_data_0001",
          "deserialize_substrate_extrinsics_0001",
          "server_success_start_indexer", "server_success_start_indexing"}

VARIABLES
    connected,                    \* sids of the connected clients
    received,                     \* [sid][request kind] -> requests received
    emitted,                      \* [sid][code] -> messages emitted to the sid
    indexer_id_counter,
    dbwriter_id_counter,
    indexer_id_to_indexer,        \* instance id -> Indexer object (or None)
    dbwriter_id_to_dbwriter,      \* instance id -> DBWriter object (or None)
    substrate_chain_to_queue,     \* chain -> Queue object (or None)
    substrate_chain_to_dbwriter,  \* chain -> DBWriter object (or None)
    greenlets_indexers,           \* greenlet_manager_indexers.greenlets
    greenlets_dbwriters,          \* greenlet_manager_dbwriters.greenlets
    indexers,                     \* Indexer objects
    dbwriters,                    \* DBWriter objects
    queue,                        \* Queue objects (one is made per DBWriter)
    db,                           \* rows of the table substrate_extrinsics
    head,                         \* number of the node's last block
    server,                       \* "running" until socketio.stop()
    last_stop,                    \* what the last stop_sid_tasks did, in order
    calc,                         \* a computation made on its own: input and result
    used_query_ranges             \* the DB's query range of substrate_extrinsics_{address}

mgr_vars == <<indexer_id_counter, dbwriter_id_counter, indexer_id_to_indexer,
              dbwriter_id_to_dbwriter, substrate_chain_to_queue,
              substrate_chain_to_dbwriter, greenlets_indexers, greenlets_dbwriters>>
vars == <<connected, received, emitted, indexer_id_counter, dbwriter_id_counter,
          indexer_id_to_indexer, dbwriter_id_to_dbwriter, substrate_chain_to_queue,
          substrate_chain_to_dbwriter, greenlets_indexers, greenlets_dbwriters,
          indexers, dbwriters, queue, db, head,
                   server, last_stop, calc, used_query_ranges>>

\* ------------------------------------------------------------- the node
\* SubstratePublicKey of an address (get_substrate_public_key_from_substrate_address)
PublicKey(address) == <<"0x", address>>

Inherent(n) ==
    [extrinsic_hash |-> NoHash, contains_transaction |-> FALSE, signer |-> None, index |-> 0]
Signed(n, k, address) ==
    [extrinsic_hash |-> <<n, k>>, contains_transaction |-> TRUE,
     signer |-> PublicKey(address), index |-> k]
Unsigned(n, k) ==
    [extrinsic_hash |-> <<n, k>>, contains_transaction |-> FALSE, signer |-> None, index |-> k]

\* What get_block_extrinsics(block_id=n) returns: the timestamp inherent first.
\* The blocks that hold no extrinsic with a hash and a transaction.
EmptyBlocks == {2, 4}

BlockExtrinsics(n) ==
    IF n \in EmptyBlocks THEN <<Inherent(n), Unsigned(n, 1)>>
    ELSE IF n % 2 = 1 THEN <<Inherent(n), Signed(n, 1, "addr1")>>
    ELSE <<Inherent(n), Signed(n, 1, "addr2"), Signed(n, 2, "addr1")>>

\* The blocks for which the node's answers can fail: the requests for every
\* other block succeed.
FlakyBlocks == {1, MaxBlock - 2}

\* Whether the inherent of block n carries a timestamp that parses.
BadTimestampBlocks == {4, MaxBlock}
InherentTimestampOk(n) == n \notin BadTimestampBlocks

\* An amount in the chain's smallest unit: the integer m * 10^z, kept as
\* <<m, z>> because the amounts exceed the integers of the model checker.
NoFee == <<>>
Planck(m, z) == <<m, z>>

\* extrinsic_receipt.total_fee_amount of the extrinsic k of block n: the
\* receipt of the extrinsic of the block before the last has no fee.
total_fee_amount(n, k) ==
    IF n = MaxBlock - 1 THEN NoFee ELSE Planck(5 * n + 10 * (k - 1), 7 + k)

\* node_interface.token_decimals (Kusama)
token_decimals == 12

\* ------------------------------------------------------------- objects
NoIndexer ==
    [state |-> "none", instance_id |-> 0, sid |-> "", chain |-> "", queue |-> None,
     address |-> "", block_number |-> 0, retries_left |-> 0, task |-> "none", put |-> <<>>,
     calls |-> 0, last_calls |-> 0, error |-> "", caught |-> "", fetched |-> {}]
NoDBWriter ==
    [state |-> "none", instance_id |-> 0, sid |-> "", chain |-> "",
     database |-> "none", task |-> "none", count |-> 0, all_substrate_extrinsics |-> <<>>,
     receipt_calls |-> 0, failure |-> "", disconnects |-> 0]

\* self.name of an Indexer / a DBWriter; a greenlet's task_name is its object's name.
IndexerName(i) == <<"indexer", indexers[i].instance_id, indexers[i].chain>>
DBWriterName(w) == <<"dbwriter", dbwriters[w].instance_id, dbwriters[w].chain>>

RECURSIVE SumOver(_, _)
SumOver(f, S) ==
    IF S = {} THEN 0
    ELSE LET x == CHOOSE y \in S : TRUE IN f[x] + SumOver(f, S \ {x})

Received(s) == SumOver(received[s], RequestKinds)
Emitted(s) == SumOver(emitted[s], Codes)
TotalReceived == SumOver([s \in Sids |-> Received(s)], Sids)

\* socketio.emit(event, data) without `to`: the message goes to every client.
EmitToAll(s, code) == [t \in Sids |-> [emitted[t] EXCEPT ![code] = @ + 1]]

\* socketio.emit(event, data, to=sid)
Emit(s, code) == [emitted EXCEPT ![s][code] = @ + 1]
\* a request of the kind arrives from the client s
Request(s, kind) ==
    /\ server = "running"
    /\ s \in connected
    /\ TotalReceived < MaxRequests
    /\ received' = [received EXCEPT ![s][kind] = @ + 1]

\* ------------------------------------------------------------- payloads
\* A JSON value of a payload as <<type, value>>; a string is its place in
\* Strings, true is 1 and false is 0; a missing key is a value of its own.
Strings == <<"Kusama", "addr1", "addr2", "not an address", "ws://node">>
JInt(n) == <<"int", n>>
JBool(b) == <<"bool", b>>
JStr(k) == <<"str", k>>
JNull == <<"null", 0>>
Missing == <<"missing", 0>>
StrOf(v) == Strings[v[2]]

ChainIdValues == {JInt(1), JInt(2), JStr(1), JBool(1), Missing}
BlockNumberValues ==
    {JInt(0 - 1), JInt(0), JInt(1), JInt(MaxBlock), JBool(0), JBool(1), JStr(1), JNull, Missing}
AddressValues == {JStr(2), JStr(3), JStr(4), Missing}
UrlValues == {JStr(5), Missing}

StartIndexerPayloads == [chain_id : ChainIdValues, url : UrlValues]
StartIndexingPayloads ==
    [chain_id : ChainIdValues, block_number_start_at : BlockNumberValues,
     address : AddressValues]
NoPayload == [chain_id |-> Missing, block_number_start_at |-> Missing, address |-> Missing]

\* isinstance(v, int): bool is a subclass of int
IsInstanceInt(v) == v[1] \in {"int", "bool"}

\* `chain_id in (SubstrateChainId('Kusama'), 1)`: True == 1
IsKusamaChainId(v) == (v[1] = "str" /\ StrOf(v) = "Kusama") \/ (IsInstanceInt(v) /\ v[2] = 1)

\* is_valid_substrate_address(chain, value)
is_valid_substrate_address(v) == v[1] = "str" /\ StrOf(v) \in Addresses

\* EventStartIndexerData.deserialize_from_data: the exception it raises, or "ok"
deserialize_start_indexer(data) ==
    IF data.chain_id = Missing \/ data.url = Missing THEN "DeserializationError"
    ELSE IF ~IsKusamaChainId(data.chain_id) THEN "AssertionError"
    ELSE "ok"

\* EventStartIndexingData.deserialize_from_data: the exception it raises, or "ok"
deserialize_start_indexing(data) ==
    IF data.chain_id = Missing \/ data.block_number_start_at = Missing
            \/ data.address = Missing
    THEN "DeserializationError"
    ELSE IF ~IsInstanceInt(data.block_number_start_at) \/ data.block_number_start_at[2] <= 0
    THEN "DeserializationError"
    ELSE IF ~IsKusamaChainId(data.chain_id) THEN "AssertionError"
    ELSE IF ~is_valid_substrate_address(data.address) THEN "DeserializationError"
    ELSE "ok"

\* No computation is made on its own.
\* No query range stored under a name; a stored one is <<start_ts, end_ts>>.
NoRange == <<>>

NoCalc ==
    [op |-> "none", amount |-> NoFee, decimals |-> 0, fee |-> NoFee, result |-> "",
     payload |-> NoPayload, block_number_start_at |-> 0, address_public_key |-> <<>>]

\* Two clients and a node with a short chain, or one client and a node whose
\* chain is long enough for a DBWriter batch.
Init ==
    /\ \/ connected = Sids /\ head = ShortChain
       \/ connected = {"A"} /\ head = MaxBlock
    /\ received = [s \in Sids |-> [k \in RequestKinds |-> 0]]
    /\ emitted = [s \in Sids |-> [c \in Codes |-> 0]]
    /\ indexer_id_counter = 0
    /\ dbwriter_id_counter = 0
    /\ indexer_id_to_indexer = [id \in 0..(MaxIndexers - 1) |-> None]
    /\ dbwriter_id_to_dbwriter = [id \in 0..(MaxWriters - 1) |-> None]
    /\ substrate_chain_to_queue = [c \in Chains |-> None]
    /\ substrate_chain_to_dbwriter = [c \in Chains |-> None]
    /\ greenlets_indexers = {}
    /\ greenlets_dbwriters = {}
    /\ indexers = [i \in IndexerObjs |-> NoIndexer]
    /\ dbwriters = [w \in WriterObjs |-> NoDBWriter]
    /\ queue = [w \in WriterObjs |-> <<>>]
    /\ db = <<>>
    /\ server = "running"
    /\ last_stop = <<>>
    /\ calc = NoCalc
    /\ used_query_ranges = [a \in Addresses |-> NoRange]

\* ------------------------------------------------------------- start_indexer
\* The same check made on the registry of instance ids instead.
ChainHasDBWriterById(c) ==
    \E id \in DOMAIN dbwriter_id_to_dbwriter :
        /\ dbwriter_id_to_dbwriter[id] # None
        /\ dbwriters[dbwriter_id_to_dbwriter[id]].chain = c

\* `substrate_chain in self.substrate_chain_to_dbwriter`
ChainHasDBWriter(c) == substrate_chain_to_dbwriter[c] # None

\* EventStartIndexerData.deserialize_from_data raises DeserializationError
StartIndexerDecodeError(s) ==
    /\ Request(s, "start_indexer_bad")
    /\ \E data \in StartIndexerPayloads :
            deserialize_start_indexer(data) = "DeserializationError"
    /\ emitted' = Emit(s, "start_indexer_0001")
    /\ UNCHANGED <<connected, mgr_vars, indexers, dbwriters, queue, db, head,
                   server, last_stop, calc, used_query_ranges>>

\* create_dbwriter raises RemoteError: the chain already has a DBWriter
StartIndexerRefused(s, c) ==
    /\ Request(s, "start_indexer")
    /\ ChainHasDBWriter(c)
    /\ emitted' = Emit(s, "start_indexer_0002")
    /\ UNCHANGED <<connected, mgr_vars, indexers, dbwriters, queue, db, head,
                   server, last_stop, calc, used_query_ranges>>

\* DBWriter.__init__: _connect_to_db raises SystemPermissionError, which
\* create_dbwriter passes on as ModuleInitializationFailure.
StartIndexerDBDenied(s, c) ==
    /\ Request(s, "start_indexer")
    /\ ~ChainHasDBWriter(c)
    /\ \E w \in WriterObjs :
        /\ dbwriters[w].state = "none"
        /\ \A v \in WriterObjs : v < w => dbwriters[v].state # "none"
        /\ dbwriters' = [dbwriters EXCEPT ![w] =
                [NoDBWriter EXCEPT !.state = "failed", !.instance_id = dbwriter_id_counter,
                                   !.sid = s, !.chain = c]]
    /\ emitted' = Emit(s, "start_indexer_0002")
    /\ UNCHANGED <<connected, mgr_vars, indexers, queue, db, head,
                   server, last_stop, calc, used_query_ranges>>

\* create_dbwriter up to the node connection in DBWriter.__init__, where the
\* handler's greenlet blocks: the check, Queue(), the DB handle.
StartIndexerBegin(s, c) ==
    /\ Request(s, "start_indexer")
    /\ ~ChainHasDBWriter(c)
    /\ \E w \in WriterObjs :
        /\ dbwriters[w].state = "none"
        /\ \A v \in WriterObjs : v < w => dbwriters[v].state # "none"
        /\ dbwriters' = [dbwriters EXCEPT ![w] =
                [NoDBWriter EXCEPT !.state = "init", !.instance_id = dbwriter_id_counter,
                                   !.sid = s, !.chain = c, !.database = "open"]]
        /\ queue' = [queue EXCEPT ![w] = <<>>]
    /\ UNCHANGED <<connected, emitted, mgr_vars, indexers, db, head,
                   server, last_stop, calc, used_query_ranges>>

\* get_node_interface returned: the rest of create_dbwriter and of the handler.
\* (A handler goes on only while the process lives.)
StartIndexerFinish(w) ==
    /\ server = "running"
    /\ dbwriters[w].state = "init"
    /\ dbwriters' = [dbwriters EXCEPT ![w].state = "built", ![w].task = "running"]
    /\ substrate_chain_to_queue' = [substrate_chain_to_queue EXCEPT ![dbwriters[w].chain] = w]
    /\ dbwriter_id_to_dbwriter' = [dbwriter_id_to_dbwriter EXCEPT ![dbwriters[w].instance_id] = w]
    /\ substrate_chain_to_dbwriter' = [substrate_chain_to_dbwriter EXCEPT ![dbwriters[w].chain] = w]
    /\ greenlets_dbwriters' = greenlets_dbwriters \cup {w}
    /\ dbwriter_id_counter' = dbwriter_id_counter + 1
    /\ emitted' = Emit(dbwriters[w].sid, "server_success_start_indexer")
    /\ UNCHANGED <<connected, received, indexer_id_counter, indexer_id_to_indexer,
                   greenlets_indexers, indexers, queue, db, head,
                   server, last_stop, calc, used_query_ranges>>

\* get_node_interface raised RemoteError: ModuleInitializationFailure. The
\* DBHandler that _connect_to_db made stays as it is: neither the except
\* clause of DBWriter.__init__ nor create_dbwriter nor the handler calls its
\* disconnect().
StartIndexerFailed(w) ==
    /\ server = "running"
    /\ dbwriters[w].state = "init"
    /\ dbwriters' = [dbwriters EXCEPT ![w].state = "failed"]
    /\ emitted' = Emit(dbwriters[w].sid, "start_indexer_0002")
    /\ UNCHANGED <<connected, received, mgr_vars, indexers, queue, db, head,
                   server, last_stop, calc, used_query_ranges>>

\* ------------------------------------------------------------- start_indexing
\* block_number_start_at of the request that makes the Indexer object i: the
\* first Indexer walks the chain from block 1, a later one its last three blocks.
StartBlock(i) == IF i = 1 THEN 1 ELSE MaxBlock - 2

\* The lookups made with dict.get, which never raises KeyError.
LookupNeverFails(c) == FALSE

\* the KeyError branch of create_indexer
MissingQueueOrDBWriter(c) ==
    substrate_chain_to_queue[c] = None \/ substrate_chain_to_dbwriter[c] = None

\* EventStartIndexingData.deserialize_from_data raises DeserializationError
StartIndexingDecodeError(s) ==
    /\ Request(s, "start_indexing_bad")
    /\ \E data \in StartIndexingPayloads :
            deserialize_start_indexing(data) = "DeserializationError"
    /\ emitted' = Emit(s, "start_indexing_0001")
    /\ UNCHANGED <<connected, mgr_vars, indexers, dbwriters, queue, db, head,
                   server, last_stop, calc, used_query_ranges>>

\* create_indexer raises RemoteError: no Queue or no DBWriter for the chain
StartIndexingRefused(s, c) ==
    /\ Request(s, "start_indexing")
    /\ MissingQueueOrDBWriter(c)
    /\ emitted' = Emit(s, "start_indexing_0002")
    /\ UNCHANGED <<connected, mgr_vars, indexers, dbwriters, queue, db, head,
                   server, last_stop, calc, used_query_ranges>>

\* create_indexer up to the node connection in Indexer.__init__, where the
\* handler's greenlet blocks.
StartIndexingBegin(s, c, address) ==
    /\ Request(s, "start_indexing")
    /\ ~MissingQueueOrDBWriter(c)
    /\ \E i \in IndexerObjs :
        /\ indexers[i].state = "none"
        /\ \A j \in IndexerObjs : j < i => indexers[j].state # "none"
        /\ indexers' = [indexers EXCEPT ![i] =
                [NoIndexer EXCEPT !.state = "init", !.instance_id = indexer_id_counter,
                                  !.sid = s, !.chain = c,
                                  !.queue = substrate_chain_to_queue[c],
                                  !.address = address,
                                  !.block_number = StartBlock(i),
                                  !.retries_left = REQUEST_BLOCK_RETRY_TIMES]]
    /\ UNCHANGED <<connected, emitted, mgr_vars, dbwriters, queue, db, head,
                   server, last_stop, calc, used_query_ranges>>

\* get_node_interface returned: the rest of create_indexer and of the handler.
StartIndexingFinish(i) ==
    /\ server = "running"
    /\ indexers[i].state = "init"
    /\ indexers' = [indexers EXCEPT ![i].state = "built", ![i].task = "running"]
    /\ indexer_id_to_indexer' = [indexer_id_to_indexer EXCEPT ![indexers[i].instance_id] = i]
    /\ greenlets_indexers' = greenlets_indexers \cup {i}
    /\ indexer_id_counter' = indexer_id_counter + 1
    /\ emitted' = Emit(indexers[i].sid, "server_success_start_indexing")
    /\ UNCHANGED <<connected, received, dbwriter_id_counter, dbwriter_id_to_dbwriter,
                   substrate_chain_to_queue, substrate_chain_to_dbwriter,
                   greenlets_dbwriters, dbwriters, queue, db, head,
                   server, last_stop, calc, used_query_ranges>>

\* get_node_interface raised RemoteError: ModuleInitializationFailure.
StartIndexingFailed(i) ==
    /\ server = "running"
    /\ indexers[i].state = "init"
    /\ indexers' = [indexers EXCEPT ![i].state = "failed"]
    /\ emitted' = Emit(indexers[i].sid, "start_indexing_0002")
    /\ UNCHANGED <<connected, received, mgr_vars, dbwriters, queue, db, head,
                   server, last_stop, calc, used_query_ranges>>

\* ------------------------------------------------------------- disconnect
\* gevent.kill(greenlet): a running task ends, a task that ended stays as it is.
Kill(task) == IF task = "running" THEN "killed" ELSE task

RegisteredIndexers == {indexer_id_to_indexer[id] : id \in DOMAIN indexer_id_to_indexer} \ {None}
RegisteredDBWriters == {dbwriter_id_to_dbwriter[id] : id \in DOMAIN dbwriter_id_to_dbwriter} \ {None}

\* stop_indexers: the task names to kill
unique_indexer_names(instance_ids) == {IndexerName(i) : i \in RegisteredIndexers}
\* stop_dbwriters: the task names to kill
unique_dbwriter_names(instance_ids) == {DBWriterName(w) : w \in RegisteredDBWriters}

\* The elements of a set of numbers, in ascending order.
RECURSIVE Ascending(_)
Ascending(S) ==
    IF S = {} THEN <<>>
    ELSE LET x == CHOOSE y \in S : \A z \in S : y <= z
         IN  <<x>> \o Ascending(S \ {x})

\* One entry of last_stop for each object of the sequence.
Did(what, objs) == [k \in 1..Len(objs) |-> <<what, objs[k]>>]

\* The databases disconnected before any greenlet is killed.
disconnect_first(killed_indexers, killed_dbwriters, disconnected) ==
    Did("disconnect", Ascending(disconnected))
        \o Did("kill_indexer", Ascending(killed_indexers))
        \o Did("kill_dbwriter", Ascending(killed_dbwriters))

\* The order of the calls of stop_sid_tasks: stop_indexers kills greenlets,
\* then stop_dbwriters kills greenlets and then disconnects the databases.
stop_order(killed_indexers, killed_dbwriters, disconnected) ==
    Did("kill_indexer", Ascending(killed_indexers))
        \o Did("kill_dbwriter", Ascending(killed_dbwriters))
        \o Did("disconnect", Ascending(disconnected))

\* stop_sid_tasks(sid): stop_indexers, then stop_dbwriters
stop_sid_tasks(sid) ==
    LET dbwriter_instance_ids ==
            {id \in DOMAIN dbwriter_id_to_dbwriter :
                /\ dbwriter_id_to_dbwriter[id] # None
                /\ dbwriters[dbwriter_id_to_dbwriter[id]].sid = sid}
        indexer_instance_ids ==
            {id \in DOMAIN indexer_id_to_indexer :
                /\ indexer_id_to_indexer[id] # None
                /\ indexers[indexer_id_to_indexer[id]].sid = sid}
        killed_indexers ==
            {g \in greenlets_indexers : IndexerName(g) \in unique_indexer_names(indexer_instance_ids)}
        killed_dbwriters ==
            {g \in greenlets_dbwriters : DBWriterName(g) \in unique_dbwriter_names(dbwriter_instance_ids)}
        disconnected == {dbwriter_id_to_dbwriter[id] : id \in dbwriter_instance_ids}
    IN  /\ greenlets_indexers' = greenlets_indexers \ killed_indexers
        /\ indexers' = [i \in IndexerObjs |->
                IF i \in killed_indexers
                THEN [indexers[i] EXCEPT !.task = Kill(@)] ELSE indexers[i]]
        /\ indexer_id_to_indexer' = [id \in DOMAIN indexer_id_to_indexer |->
                IF id \in indexer_instance_ids THEN None ELSE indexer_id_to_indexer[id]]
        /\ greenlets_dbwriters' = greenlets_dbwriters \ killed_dbwriters
        /\ dbwriters' = [w \in WriterObjs |->
                [dbwriters[w] EXCEPT
                    !.task = IF w \in killed_dbwriters THEN Kill(@) ELSE @,
                    !.database = IF w \in disconnected THEN "closed" ELSE @,
                    !.disconnects = IF w \in disconnected THEN @ + 1 ELSE @]]
        /\ dbwriter_id_to_dbwriter' = [id \in DOMAIN dbwriter_id_to_dbwriter |->
                IF id \in dbwriter_instance_ids THEN None ELSE dbwriter_id_to_dbwriter[id]]
        /\ last_stop' = stop_order(killed_indexers, killed_dbwriters, disconnected)

\* the disconnect handler: the client left, or the server was stopped with
\* the client connected (socketio.stop() disconnects all clients)
Disconnect(s) ==
    /\ s \in connected
    /\ connected' = connected \ {s}
    /\ stop_sid_tasks(s)
    /\ UNCHANGED <<received, emitted, indexer_id_counter, dbwriter_id_counter,
                   substrate_chain_to_queue, substrate_chain_to_dbwriter, queue, db, head,
                   server, calc, used_query_ranges>>

\* ------------------------------------------------------------- shutdown
\* GreenletManager.clear(): the greenlets it kills are all those it tracks.
clear(greenlets) == greenlets

\* Only the databases of the DBWriters whose task still runs.
RunningRegisteredDBWriters == {w \in RegisteredDBWriters : dbwriters[w].task = "running"}

\* Manager.shutdown: the DBWriters whose database it disconnects
ShutdownDisconnects == RegisteredDBWriters

\* Manager.shutdown, after the DBWriters of `stopped` were disconnected and
\* taken off the registry by stop_sid_tasks
shutdown(stopped) ==
    /\ greenlets_indexers' = {}
    /\ greenlets_dbwriters' = {}
    /\ indexers' = [i \in IndexerObjs |->
            IF i \in clear(greenlets_indexers)
            THEN [indexers[i] EXCEPT !.task = Kill(@)] ELSE indexers[i]]
    /\ dbwriters' = [w \in WriterObjs |->
            [dbwriters[w] EXCEPT
                !.task = IF w \in clear(greenlets_dbwriters) THEN Kill(@) ELSE @,
                !.database = IF w \in stopped \cup ShutdownDisconnects THEN "closed" ELSE @,
                !.disconnects = IF w \in stopped \cup ShutdownDisconnects THEN @ + 1 ELSE @]]

\* SIGINT, SIGTERM or SIGQUIT: manager.shutdown(), then socketio.stop(), which
\* disconnects all clients: their disconnect handlers are the steps
\* Disconnect of the stopped server.
Shutdown ==
    /\ server = "running"
    /\ shutdown({})
    /\ server' = "stopped"
    /\ UNCHANGED <<connected, received, emitted, indexer_id_counter, dbwriter_id_counter,
                   indexer_id_to_indexer, dbwriter_id_to_dbwriter, substrate_chain_to_queue,
                   substrate_chain_to_dbwriter, queue, db, head, last_stop, calc, used_query_ranges>>

\* error_handler: flask_socketio.disconnect() of the client whose handler
\* raised (its disconnect handler runs stop_sid_tasks), manager.shutdown(),
\* socketio.stop().
error_handler(s) ==
    LET ids == {id \in DOMAIN dbwriter_id_to_dbwriter :
                    /\ dbwriter_id_to_dbwriter[id] # None
                    /\ dbwriters[dbwriter_id_to_dbwriter[id]].sid = s}
        stopped == {dbwriter_id_to_dbwriter[id] : id \in ids}
        killed_indexers ==
            {g \in greenlets_indexers : IndexerName(g) \in unique_indexer_names({})}
        killed_dbwriters ==
            {g \in greenlets_dbwriters : DBWriterName(g) \in unique_dbwriter_names(ids)}
    IN  /\ shutdown(stopped)
        /\ indexer_id_to_indexer' = [id \in DOMAIN indexer_id_to_indexer |->
                IF /\ indexer_id_to_indexer[id] # None
                   /\ indexers[indexer_id_to_indexer[id]].sid = s
                THEN None ELSE indexer_id_to_indexer[id]]
        /\ dbwriter_id_to_dbwriter' = [id \in DOMAIN dbwriter_id_to_dbwriter |->
                IF id \in ids THEN None ELSE dbwriter_id_to_dbwriter[id]]
        /\ last_stop' = stop_order(killed_indexers, killed_dbwriters, stopped)
        /\ server' = "stopped"
        /\ connected' = connected \ {s}

\* start_indexer with a chain_id that is not Kusama's:
\* get_substrate_chain_from_chain_id raises AssertionError, which the handler
\* does not catch.
StartIndexerUnexpectedChain(s) ==
    /\ Request(s, "start_indexer_unexpected")
    /\ \E data \in StartIndexerPayloads : deserialize_start_indexer(data) = "AssertionError"
    /\ error_handler(s)
    /\ UNCHANGED <<emitted, indexer_id_counter, dbwriter_id_counter,
                   substrate_chain_to_queue, substrate_chain_to_dbwriter, queue, db, head, calc, used_query_ranges>>

\* start_indexing with a chain_id that is not Kusama's
StartIndexingUnexpectedChain(s) ==
    /\ Request(s, "start_indexing_unexpected")
    /\ \E data \in StartIndexingPayloads : deserialize_start_indexing(data) = "AssertionError"
    /\ error_handler(s)
    /\ UNCHANGED <<emitted, indexer_id_counter, dbwriter_id_counter,
                   substrate_chain_to_queue, substrate_chain_to_dbwriter, queue, db, head, calc, used_query_ranges>>

\* ------------------------------------------------------------- Indexer task
\* The filter of _get_address_block_extrinsics_data. The comparison of the
\* signer with the address is commented out in the source.
KeepsExtrinsic(x, address_public_key) ==
    ~(x.extrinsic_hash = NoHash \/ x.contains_transaction = FALSE)

address_block_extrinsics(n, address_public_key) ==
    SelectSeq(BlockExtrinsics(n), LAMBDA x : KeepsExtrinsic(x, address_public_key))

\* The cursor left where it is.
SameBlockNumber(n) == n

\* The cursor moved over the block behind n.
SkipsABlock(n) == n + 2

\* block_number += 1
NextBlockNumber(n) == n + 1

SubstrateAddressBlockExtrinsicsData(address, n) ==
    [address |-> address,
     address_public_key |-> PublicKey(address),
     block_number |-> n,
     block_hash |-> n,
     block_timestamp |-> n,
     extrinsics |-> address_block_extrinsics(n, PublicKey(address))]

\* The node has the block: its number is not past the head of the chain.
NodeHasBlock(n) == n <= head

\* `while True` of Indexer.start: the loop goes on whatever the cursor is,
\* the head of the chain is never read.
IndexerRuns(i) == indexers[i].task = "running"

\* The request of block n can be answered with an error: the connection to
\* the node is unreliable for the flaky blocks, and the node has no block
\* past its head to answer with.
RequestCanFail(n) == n \in FlakyBlocks \/ ~NodeHasBlock(n)

\* The indexer after the call of get_block_extrinsics that ended its task.
Ended(i, error, caught) ==
    [indexers[i] EXCEPT !.task = "ended", !.calls = @ + 1, !.error = error, !.caught = caught]

\* The indexer after the call of get_block_extrinsics that ended block n.
Advanced(i, n) ==
    [indexers[i] EXCEPT
        !.block_number = NextBlockNumber(n),
        !.retries_left = REQUEST_BLOCK_RETRY_TIMES,
        !.calls = 0,
        !.last_calls = indexers[i].calls + 1,
        !.fetched = @ \cup {n},
        !.caught = ""]

\* The task returns and tells nobody.
ReturnsSilently(i, ended) ==
    /\ indexers' = [indexers EXCEPT ![i] = ended]
    /\ UNCHANGED emitted

\* except (DeserializationError, RemoteError) of Indexer.start: one
\* server_error with IndexerError.E0001 to self.sid, then return None.
EmitsErrorAndReturns(i, ended) ==
    /\ indexers' = [indexers EXCEPT ![i] = ended]
    /\ emitted' = Emit(indexers[i].sid, "get_address_block_extrinsics_data_0001")

\* The exceptions of get_block_extrinsics the retry loop catches: those of
\* the transport (RequestException, SubstrateRequestException,
\* WebSocketException) and ValueError, raised when the response does not
\* decode.
FetchErrors == {"RequestException", "ValueError"}

\* No exception is retried.
NeverRetries(e, retries_left) == FALSE

\* `if retries_left > 0: retries_left -= 1; continue`, whatever the exception
Retries(e, retries_left) == retries_left > 0

\* get_block_extrinsics raised (RequestException, SubstrateRequestException,
\* ValueError, WebSocketException): retry, or RemoteError and the task ends
\* after its server_error.
IndexerFetchFailed(i) ==
    /\ IndexerRuns(i)
    /\ RequestCanFail(indexers[i].block_number)
    /\ \E e \in FetchErrors :
        IF Retries(e, indexers[i].retries_left)
        THEN /\ indexers' = [indexers EXCEPT
                    ![i].retries_left = @ - 1, ![i].calls = @ + 1, ![i].caught = e]
             /\ UNCHANGED emitted
        ELSE EmitsErrorAndReturns(i, Ended(i, "RemoteError", e))
    /\ UNCHANGED <<connected, received, mgr_vars, dbwriters, queue, db, head,
                   server, last_stop, calc, used_query_ranges>>

\* A record is made of every block, also of one without extrinsics left.
AlwaysPuts(data) == FALSE

\* `if len(address_block_extrinsics) == 0: return None`, and the record that
\* is None is not put
NothingToPut(data) == Len(data.extrinsics) = 0

\* get_block_extrinsics returned: the rest of the iteration of Indexer.start.
IndexerFetched(i) ==
    /\ IndexerRuns(i)
    /\ NodeHasBlock(indexers[i].block_number)
    /\ LET n == indexers[i].block_number
           data == SubstrateAddressBlockExtrinsicsData(indexers[i].address, n)
       IN  IF NothingToPut(data)
           THEN /\ indexers' = [indexers EXCEPT ![i] = Advanced(i, n)]
                /\ UNCHANGED <<emitted, queue>>
           ELSE IF ~InherentTimestampOk(n)
           THEN /\ EmitsErrorAndReturns(i, Ended(i, "DeserializationError", indexers[i].caught))
                /\ UNCHANGED queue
           ELSE /\ queue' = [queue EXCEPT ![indexers[i].queue] = Append(@, data)]
                /\ indexers' = [indexers EXCEPT
                        ![i] = [Advanced(i, n) EXCEPT !.put = Append(@, data)]]
                /\ UNCHANGED emitted
    /\ UNCHANGED <<connected, received, mgr_vars, dbwriters, db, head,
                   server, last_stop, calc, used_query_ranges>>

\* ------------------------------------------------------------- DBWriter task
\* A decimal number c * 10^e as <<c, e>>, in the form with the shortest
\* coefficient: equal numbers are equal pairs.
RECURSIVE Normalize(_, _)
Normalize(c, e) ==
    IF c = 0 THEN <<0, 0>>
    ELSE IF c % 10 = 0 THEN Normalize(c \div 10, e + 1)
    ELSE <<c, e>>

\* FVal('10') ** decimals
FValPow10(decimals) == <<1, decimals>>

\* a / b for a divisor that is a power of ten: the quotient is exact.
FValDiv(a, b) == Normalize(a[1], a[2] - b[2])

\* The fee computed with the decimals of another chain (Polkadot's ten).
FeeWithTenDecimals(amount, decimals) == FValDiv(amount, FValPow10(10))

\* fee = total_fee_amount / FVal('10') ** self.node_interface.token_decimals
Fee(amount, decimals) == FValDiv(amount, FValPow10(decimals))

\* The SubstrateExtrinsic built from an extrinsic and its receipt.
SubstrateExtrinsic(data, x) ==
    [chain_id |-> "Kusama",
     block_number |-> data.block_number,
     block_timestamp |-> data.block_timestamp,
     extrinsic_index |-> x.index,
     extrinsic_hash |-> x.extrinsic_hash,
     account_id |-> data.address_public_key,
     address |-> data.address,
     fee |-> Fee(total_fee_amount(data.block_number, x.index), token_decimals)]

\* total_fee_amount is None for an extrinsic of the record
FeeMissing(data) ==
    \E k \in 1..Len(data.extrinsics) :
        total_fee_amount(data.block_number, data.extrinsics[k].index) = NoFee

_deserialize_substrate_extrinsics(data) ==
    [k \in 1..Len(data.extrinsics) |-> SubstrateExtrinsic(data, data.extrinsics[k])]

UniqueKey(row) == <<row.chain_id, row.block_number, row.extrinsic_index>>

\* The row with another fee: what a later delivery of the same extrinsic
\* would carry had its receipt changed.
WithFee(row, fee) == [row EXCEPT !.fee = fee]

\* A plain insert into a table without the unique constraint.
PlainInsert(rows, row) == Append(rows, row)

\* An insert that replaces the row of the same key (INSERT OR REPLACE).
InsertOrReplace(rows, row) ==
    IF \E k \in 1..Len(rows) : UniqueKey(rows[k]) = UniqueKey(row)
    THEN [k \in 1..Len(rows) |->
            IF UniqueKey(rows[k]) = UniqueKey(row) THEN row ELSE rows[k]]
    ELSE Append(rows, row)

\* DBHandler.add_substrate_extrinsics: insert or ignore, under
\* UNIQUE(chain_id, block_number, extrinsic_index)
InsertOrIgnore(rows, row) ==
    IF \E k \in 1..Len(rows) : UniqueKey(rows[k]) = UniqueKey(row)
    THEN rows ELSE Append(rows, row)

RECURSIVE add_substrate_extrinsics(_, _)
add_substrate_extrinsics(rows, extrinsics) ==
    IF extrinsics = <<>> THEN rows
    ELSE add_substrate_extrinsics(InsertOrIgnore(rows, Head(extrinsics)), Tail(extrinsics))

\* A pass is started as soon as the queue holds an item.
ProcessesAnyItem(length) == length > 0

\* `if len(self.queue) < MIN_NUMBER_QUEUE_ITEMS_BEFORE_PROCESS: sleep; continue`
ProcessesQueue(length) == length >= MIN_NUMBER_QUEUE_ITEMS_BEFORE_PROCESS

\* The next queue.get() of DBWriter.start does not wait.
DBWriterGets(w) ==
    /\ dbwriters[w].task = "running"
    /\ dbwriters[w].count < MAX_NUMBER_QUEUE_ITEMS_TO_PROCESS
    /\ dbwriters[w].count = 0 => ProcessesQueue(Len(queue[w]))
    /\ Len(queue[w]) > 0

\* One iteration of the for loop of DBWriter.start: the item is taken off the
\* queue and its extrinsics are built from their receipts.
DBWriterGet(w) ==
    /\ DBWriterGets(w)
    /\ ~FeeMissing(Head(queue[w]))
    /\ queue' = [queue EXCEPT ![w] = Tail(@)]
    /\ dbwriters' = [dbwriters EXCEPT
            ![w].count = @ + 1,
            ![w].all_substrate_extrinsics = @ \o _deserialize_substrate_extrinsics(Head(queue[w]))]
    /\ UNCHANGED <<connected, received, emitted, mgr_vars, indexers, db, head,
                   server, last_stop, calc, used_query_ranges>>

\* The reads of extrinsic_receipt.extrinsic_idx and .total_fee_amount made
\* for one extrinsic when the first of them raises: the handler lowers
\* retries_left and raises RemoteError in the same pass of the while loop,
\* which has no `continue`.
ReceiptCallsUntilRemoteError(retries_left) == 1

\* The same iteration when a receipt request fails ("receipt") or the fee of
\* a receipt is None ("fee"): RemoteError ends the task.
DBWriterGetFailed(w) ==
    /\ DBWriterGets(w)
    /\ \E failure \in {"receipt", "fee"} :
        /\ failure = "receipt" => Head(queue[w]).block_number \in FlakyBlocks
        /\ failure = "fee" => FeeMissing(Head(queue[w]))
        /\ dbwriters' = [dbwriters EXCEPT
                ![w].task = "ended",
                ![w].failure = failure,
                ![w].receipt_calls =
                    IF failure = "receipt"
                    THEN ReceiptCallsUntilRemoteError(REQUEST_RECEIPT_DATA_TIMES)
                    ELSE 1]
    /\ queue' = [queue EXCEPT ![w] = Tail(@)]
    /\ UNCHANGED <<connected, received, emitted, mgr_vars, indexers, db, head,
                   server, last_stop, calc, used_query_ranges>>

DBWriterCommits(w) ==
    /\ dbwriters[w].task = "running"
    /\ dbwriters[w].count = MAX_NUMBER_QUEUE_ITEMS_TO_PROCESS

\* self.database.add_substrate_extrinsics(all_substrate_extrinsics)
DBWriterCommit(w) ==
    /\ DBWriterCommits(w)
    /\ dbwriters[w].database = "open"
    /\ db' = IF dbwriters[w].all_substrate_extrinsics = <<>> THEN db
             ELSE add_substrate_extrinsics(db, dbwriters[w].all_substrate_extrinsics)
    /\ dbwriters' = [dbwriters EXCEPT ![w].count = 0, ![w].all_substrate_extrinsics = <<>>]
    /\ UNCHANGED <<connected, received, emitted, mgr_vars, indexers, queue, head,
                   server, last_stop, calc, used_query_ranges>>

\* add_substrate_extrinsics raises: the task ends.
DBWriterCommitFailed(w) ==
    /\ DBWriterCommits(w)
    /\ dbwriters[w].all_substrate_extrinsics # <<>>
    /\ dbwriters' = [dbwriters EXCEPT ![w].task = "ended"]
    /\ UNCHANGED <<connected, received, emitted, mgr_vars, indexers, queue, db, head,
                   server, last_stop, calc, used_query_ranges>>

\* ------------------------------------------------------------- specification
Next ==
    \/ \E s \in Sids : StartIndexerDecodeError(s)
    \/ \E s \in Sids, c \in Chains : StartIndexerRefused(s, c)
    \/ \E s \in Sids, c \in Chains : StartIndexerDBDenied(s, c)
    \/ \E s \in Sids, c \in Chains : StartIndexerBegin(s, c)
    \/ \E w \in WriterObjs : StartIndexerFinish(w)
    \/ \E w \in WriterObjs : StartIndexerFailed(w)
    \/ \E s \in Sids : StartIndexingDecodeError(s)
    \/ \E s \in Sids, c \in Chains : StartIndexingRefused(s, c)
    \/ \E s \in Sids, c \in Chains, a \in Addresses : StartIndexingBegin(s, c, a)
    \/ \E i \in IndexerObjs : StartIndexingFinish(i)
    \/ \E i \in IndexerObjs : StartIndexingFailed(i)
    \/ \E s \in Sids : Disconnect(s)
    \/ \E i \in IndexerObjs : IndexerFetchFailed(i)
    \/ \E i \in IndexerObjs : IndexerFetched(i)
    \/ \E w \in WriterObjs : DBWriterGet(w)
    \/ \E w \in WriterObjs : DBWriterGetFailed(w)
    \/ \E w \in WriterObjs : DBWriterCommit(w)
    \/ \E w \in WriterObjs : DBWriterCommitFailed(w)
    \/ \E s \in Sids : StartIndexerUnexpectedChain(s)
    \/ \E s \in Sids : StartIndexingUnexpectedChain(s)
    \/ Shutdown

Spec == Init /\ [][Next]_vars

\* A step of the task of a DBWriter, whatever its outcome.
DBWriterStep(w) ==
    DBWriterGet(w) \/ DBWriterGetFailed(w) \/ DBWriterCommit(w) \/ DBWriterCommitFailed(w)

\* A step of the task of an Indexer, whatever its outcome.
IndexerStep(i) == IndexerFetched(i) \/ IndexerFetchFailed(i)

\* The gevent hub runs every greenlet that is ready: a task that can take a
\* step takes it (a sleeping DBWriter wakes up every DBWRITER_SLEEP_SECONDS
\* and tests the queue again). The clients owe the server no request.
FairSpec ==
    /\ Spec
    /\ \A w \in WriterObjs : WF_vars(DBWriterStep(w))
    /\ \A i \in IndexerObjs : WF_vars(IndexerStep(i))

\* ------------------------------------------------------------- computations on their own
\* token_decimals of the chains a node can serve: none, Polkadot's, Kusama's
TokenDecimals == {0, 10, token_decimals}

FeeAmounts == {Planck(m, z) : m \in 0..MaxFeeMantissa, z \in 0..MaxFeeZeros} \cup {NoFee}

\* The server before any request, and one computation with its input.
\* The server before any client has connected.
Quiet ==
    /\ connected = {} /\ head = ShortChain
    /\ received = [s \in Sids |-> [k \in RequestKinds |-> 0]]
    /\ emitted = [s \in Sids |-> [c \in Codes |-> 0]]
    /\ indexer_id_counter = 0
    /\ dbwriter_id_counter = 0
    /\ indexer_id_to_indexer = [id \in 0..(MaxIndexers - 1) |-> None]
    /\ dbwriter_id_to_dbwriter = [id \in 0..(MaxWriters - 1) |-> None]
    /\ substrate_chain_to_queue = [c \in Chains |-> None]
    /\ substrate_chain_to_dbwriter = [c \in Chains |-> None]
    /\ greenlets_indexers = {}
    /\ greenlets_dbwriters = {}
    /\ indexers = [i \in IndexerObjs |-> NoIndexer]
    /\ dbwriters = [w \in WriterObjs |-> NoDBWriter]
    /\ queue = [w \in WriterObjs |-> <<>>]
    /\ db = <<>>
    /\ server = "running"
    /\ last_stop = <<>>
    /\ used_query_ranges = [a \in Addresses |-> NoRange]

InitCalc ==
    /\ Quiet
    /\ \/ \E amount \in FeeAmounts, decimals \in TokenDecimals :
            calc = [NoCalc EXCEPT !.op = "fee", !.amount = amount, !.decimals = decimals]
       \/ \E data \in StartIndexingPayloads :
            calc = [NoCalc EXCEPT !.op = "start_indexing", !.payload = data]

\* A computation made on its own leaves the server as it is.
CalcFrame ==
    UNCHANGED <<connected, received, emitted, mgr_vars, indexers, dbwriters, queue, db,
                head, server, last_stop, used_query_ranges>>

\* The end of an iteration of _deserialize_substrate_extrinsics: RemoteError
\* when the receipt has no fee, the fee in the chain's unit otherwise.
ComputeFee ==
    /\ calc.op = "fee" /\ calc.result = ""
    /\ calc' = IF calc.amount = NoFee
               THEN [calc EXCEPT !.result = "RemoteError"]
               ELSE [calc EXCEPT !.result = "ok", !.fee = Fee(calc.amount, calc.decimals)]
    /\ CalcFrame

\* The start of the start_indexing handler: the payload is deserialized into
\* an EventStartIndexingData, or the handler answers start_indexing_0001, or
\* the exception goes to error_handler.
DeserializeStartIndexing ==
    /\ calc.op = "start_indexing" /\ calc.result = ""
    /\ LET data == calc.payload
           raised == deserialize_start_indexing(data)
       IN  calc' = IF raised = "DeserializationError"
                   THEN [calc EXCEPT !.result = "start_indexing_0001"]
                   ELSE IF raised = "AssertionError"
                   THEN [calc EXCEPT !.result = "error_handler"]
                   ELSE [calc EXCEPT
                            !.result = "accepted",
                            !.block_number_start_at = data.block_number_start_at[2],
                            !.address_public_key = PublicKey(StrOf(data.address))]
    /\ CalcFrame

NextCalc == ComputeFee \/ DeserializeStartIndexing

SpecCalc == InitCalc /\ [][NextCalc]_vars

\* ------------------------------------------------------------- the nodes of SubstrateManager
\* NodeName: the own node and the public nodes of the chain. KusamaNodeName
\* lists one public node; the others stand for the public nodes a chain's
\* enum may list.
OWN == "own node"
NodeNames == {OWN, "parity", "public 2", "public 3"}
Weights == 0..MaxWeight

\* available_node_attributes_map, a dict, as the sequence of its items in the
\* order of their insertion: each node at most once.
NodeAttributesMaps ==
    {m \in UNION {[1..n -> [node : NodeNames, weight_block : Weights]] :
                        n \in 0..Cardinality(NodeNames)} :
        \A j, k \in DOMAIN m : m[j].node = m[k].node => j = k}

NoPoolCalc ==
    [op |-> "none", available |-> <<>>, given |-> <<>>, nodes_sorted |-> <<>>, result |-> "",
     failing |-> {}, called |-> <<>>, requested_nodes |-> <<>>, by |-> "",
     node |-> "", interface |-> "", chain_id |-> "", last_block |-> <<"", 0>>,
     metadata |-> <<"", 0>>, properties |-> "", chain_properties_set |-> FALSE,
     has_chain_properties |-> FALSE, warnings |-> 0,
     endpoint |-> "", own_interface_url |-> "", own_rpc_endpoint |-> ""]

\* dict.pop(key) of a copy of the map
Pop(map, node) == SelectSeq(map, LAMBDA item : item.node # node)

\* The nodes sorted by weight_block, the lowest first.
AscendingKey(item) == item.weight_block

\* key=lambda item: -item[1].weight_block
SortKey(item) == 0 - item.weight_block

\* sorted(items, key): stable, an item goes behind the items of the same key.
RECURSIVE InsertSorted(_, _)
InsertSorted(sorted, item) ==
    IF sorted = <<>> THEN <<item>>
    ELSE IF SortKey(Head(sorted)) <= SortKey(item)
    THEN <<Head(sorted)>> \o InsertSorted(Tail(sorted), item)
    ELSE <<item>> \o sorted

RECURSIVE Sorted(_)
Sorted(items) ==
    IF items = <<>> THEN <<>>
    ELSE InsertSorted(Sorted(SubSeq(items, 1, Len(items) - 1)), items[Len(items)])

\* SubstrateManager._get_nodes_call_order
_get_nodes_call_order(available_node_attributes_map) ==
    LET node_attributes_map == available_node_attributes_map
        own == SelectSeq(node_attributes_map, LAMBDA item : item.node = OWN)
    IN  IF own # <<>>
        THEN own \o Sorted(Pop(node_attributes_map, OWN))
        ELSE Sorted(node_attributes_map)

\* What the node and the explorer answer to the requests of _connect_node.
\* SubstrateInterface(url=...): made, RequestException, or one of
\* FileNotFoundError, ValueError, TypeError
InterfaceOutcomes == {"ok", "RequestException", "ValueError"}
\* node_interface.chain
ChainIdOutcomes == {"Kusama", "Polkadot", "RequestException"}
\* get_block_number(get_chain_head()): the last block, or an exception
LastBlockOutcomes == {<<"ok", n>> : n \in Weights} \cup {<<"RequestException", 0>>}
\* _request_chain_metadata: RemoteError, a response without data.blockNum, or
\* the explorer's last block (at, at the threshold above, and beyond the
\* threshold above the last blocks of the nodes)
blocks_threshold == 10
MetadataOutcomes ==
    {<<"RemoteError", 0>>, <<"KeyError", 0>>}
        \cup {<<"ok", n>> : n \in {0, MaxWeight, blocks_threshold, blocks_threshold + 1,
                                    MaxWeight + blocks_threshold + 1}}
\* node_interface.properties and their deserialization
PropertiesOutcomes == {"ok", "RequestException", "KeyError"}

\* A chain id request that succeeds is enough, whatever the chain.
AnyChain(chain_id) ==
    IF chain_id = "RequestException" THEN "RemoteError" ELSE "ok"

\* _check_chain_id: what it raises
_check_chain_id(chain_id) ==
    IF chain_id = "RequestException" THEN "RemoteError"
    ELSE IF chain_id # "Kusama" THEN "RemoteError"
    ELSE "ok"

\* _get_node_interface: what it raises
_get_node_interface(interface) ==
    IF interface = "ok" THEN "ok"
    ELSE IF interface = "RequestException" THEN "RemoteError"
    ELSE "AttributeError"

\* _check_node_synchronization: what it raises and the warnings it adds
_check_node_synchronization(last_block, metadata) ==
    IF last_block[1] # "ok" THEN [raised |-> "RemoteError", warnings |-> 0]
    ELSE IF metadata[1] = "RemoteError" THEN [raised |-> "ok", warnings |-> 1]
    ELSE IF metadata[1] = "KeyError" THEN [raised |-> "RemoteError", warnings |-> 0]
    ELSE IF metadata[2] - last_block[2] > blocks_threshold
    THEN [raised |-> "ok", warnings |-> 1]
    ELSE [raised |-> "ok", warnings |-> 0]

\* _set_chain_properties: what it raises
_set_chain_properties(chain_properties_set, properties) ==
    IF chain_properties_set THEN "ok"
    ELSE IF properties = "ok" THEN "ok"
    ELSE "RemoteError"

\* the nodes of the map
NodesOf(map) == {map[k].node : k \in 1..Len(map)}

\* `f'http://{endpoint}' if not urlparse(endpoint).scheme else endpoint`,
\* for the endpoints of the model: "e1" is the one without a scheme.
_format_own_rpc_endpoint(endpoint) ==
    IF endpoint = "e1" THEN "http://e1" ELSE endpoint

\* The endpoints given to set_rpc_endpoint, and those the own node of the
\* map can be connected to.
Endpoints == {"", "e1", "http://e2"}
OwnEndpoints == {"http://e1", "http://e2"}

InitPool ==
    /\ Quiet
    /\ \E m \in NodeAttributesMaps :
        \/ calc = [NoPoolCalc EXCEPT !.op = "call_order", !.available = m, !.given = m]
        \/ \E failing \in SUBSET NodesOf(m) :
                calc = [NoPoolCalc EXCEPT
                            !.op = "request", !.available = m, !.given = m,
                            !.failing = failing]
        \/ /\ Len(m) <= 1
           /\ \E node \in {OWN, "parity"}, interface \in InterfaceOutcomes,
                 chain_id \in ChainIdOutcomes, last_block \in LastBlockOutcomes,
                 metadata \in MetadataOutcomes, properties \in PropertiesOutcomes,
                 chain_properties_set \in BOOLEAN :
                calc = [NoPoolCalc EXCEPT
                            !.op = "connect", !.available = m, !.given = m,
                            !.node = node, !.interface = interface, !.chain_id = chain_id,
                            !.last_block = last_block, !.metadata = metadata,
                            !.properties = properties,
                            !.chain_properties_set = chain_properties_set,
                            !.has_chain_properties = chain_properties_set,
                            !.endpoint = IF node = OWN THEN "http://e1" ELSE "parity url",
                            !.own_interface_url = IF OWN \in NodesOf(m) THEN "http://e1" ELSE "",
                            !.own_rpc_endpoint = IF OWN \in NodesOf(m) THEN "http://e1" ELSE ""]
        \/ /\ Len(m) <= 1
           /\ \E endpoint \in Endpoints, interface \in InterfaceOutcomes,
                 chain_id \in ChainIdOutcomes, last_block \in LastBlockOutcomes,
                 metadata \in MetadataOutcomes, properties \in PropertiesOutcomes,
                 url \in OwnEndpoints :
                calc = [NoPoolCalc EXCEPT
                            !.op = "set_rpc_endpoint", !.available = m, !.given = m,
                            !.node = OWN, !.interface = interface, !.chain_id = chain_id,
                            !.last_block = last_block, !.metadata = metadata,
                            !.properties = properties,
                            !.chain_properties_set = (m # <<>>),
                            !.has_chain_properties = (m # <<>>),
                            !.endpoint = endpoint,
                            !.own_interface_url = IF OWN \in NodesOf(m) THEN url ELSE "",
                            !.own_rpc_endpoint = IF OWN \in NodesOf(m) THEN url ELSE ""]

\* A call of _get_nodes_call_order: the map is copied, the copy is popped.
GetNodesCallOrder ==
    /\ calc.op = "call_order" /\ calc.result = ""
    /\ calc' = [calc EXCEPT
            !.result = "returned",
            !.nodes_sorted = _get_nodes_call_order(calc.available)]
    /\ CalcFrame

\* request_available_nodes with an empty map: RemoteError, the method is not
\* called.
RequestNoNodes ==
    /\ calc.op = "request" /\ calc.result = ""
    /\ Len(calc.available) = 0
    /\ calc' = [calc EXCEPT !.result = "RemoteError"]
    /\ CalcFrame

\* The first RemoteError of a node ends the request.
GivesUp(k, order) == TRUE

\* the for loop has no node left: `raise RemoteError` behind it
LastNode(k, order) == k = Len(order)

\* One iteration of the for loop of the wrapper: the method is called with
\* the interface of the next node of the call order; its result is returned,
\* or its RemoteError is caught and the loop goes on.
RequestCall ==
    /\ calc.op = "request" /\ calc.result = ""
    /\ Len(calc.available) > 0
    /\ LET order == _get_nodes_call_order(calc.available)
           k == Len(calc.called) + 1
           node == order[k].node
       IN  calc' = IF node \in calc.failing
                   THEN [calc EXCEPT
                            !.called = Append(@, node),
                            !.requested_nodes = Append(@, node),
                            !.result = IF LastNode(k, order) THEN "RemoteError" ELSE ""]
                   ELSE [calc EXCEPT
                            !.called = Append(@, node),
                            !.result = "returned",
                            !.by = node]
    /\ CalcFrame

\* _connect_node(node, endpoint): the manager c after the call, with its result
_connect_node(c, node, endpoint) ==
    LET sync == _check_node_synchronization(c.last_block, c.metadata)
    IN  IF node \in NodesOf(c.available)
        THEN [c EXCEPT !.result = "True, already connected"]
        ELSE IF _get_node_interface(c.interface) # "ok"
        THEN [c EXCEPT
                !.result = IF _get_node_interface(c.interface) = "RemoteError"
                           THEN "False, message" ELSE "AttributeError"]
        ELSE IF _check_chain_id(c.chain_id) # "ok"
        THEN [c EXCEPT !.result = "False, message"]
        ELSE IF sync.raised # "ok"
        THEN [c EXCEPT !.result = "False, message"]
        ELSE IF _set_chain_properties(c.chain_properties_set, c.properties) # "ok"
        THEN [c EXCEPT !.result = "False, message", !.warnings = sync.warnings]
        ELSE [c EXCEPT
                !.result = "True",
                !.warnings = sync.warnings,
                !.has_chain_properties = TRUE,
                !.available = Append(@, [node |-> node,
                                         weight_block |-> c.last_block[2]]),
                !.own_interface_url = IF node = OWN THEN endpoint ELSE @,
                !.own_rpc_endpoint = IF node = OWN THEN endpoint ELSE @]

ConnectNode ==
    /\ calc.op = "connect" /\ calc.result = ""
    /\ calc' = _connect_node(calc, calc.node, calc.endpoint)
    /\ CalcFrame

\* set_rpc_endpoint(endpoint)
SetRpcEndpoint ==
    /\ calc.op = "set_rpc_endpoint" /\ calc.result = ""
    /\ calc' = IF calc.endpoint = ""
               THEN [calc EXCEPT
                        !.available = Pop(@, OWN),
                        !.own_interface_url = "",
                        !.own_rpc_endpoint = "",
                        !.result = "True, ''"]
               ELSE _connect_node(calc, OWN, _format_own_rpc_endpoint(calc.endpoint))
    /\ CalcFrame

NextPool ==
    GetNodesCallOrder \/ RequestNoNodes \/ RequestCall \/ ConnectNode \/ SetRpcEndpoint

SpecPool == InitPool /\ [][NextPool]_vars

\* ------------------------------------------------------------- concurrent connections
\* _attempt_connections spawns one greenlet per node, each running
\* _connect_node. A greenlet runs until it waits for an answer of its node;
\* the answers to the requests for the interface, the chain id and the last
\* block are taken to be good here (ConnectNode has their failures), and the
\* steps below are the code around the request of the chain properties.
NoProperties == ""
\* SubstrateChainProperties a node answers with (token and token_decimals)
ChainProperties == {"KSM 12", "KSM 10"}
PropertiesAnswers == ChainProperties \cup {"RequestException"}

NoAttemptCalc ==
    [op |-> "attempt",
     answers |-> [n \in NodeNames |-> "RequestException"],
     pc |-> [n \in NodeNames |-> "none"],
     chain_properties |-> NoProperties,
     assigned |-> 0,
     connected_nodes |-> <<>>]

\* _attempt_connections(node_names, own_rpc_endpoint): a greenlet per node
InitConnections ==
    /\ Quiet
    /\ \E node_names \in SUBSET NodeNames \ {{}}, answers \in [NodeNames -> PropertiesAnswers] :
        calc = [NoAttemptCalc EXCEPT
                    !.answers = answers,
                    !.pc = [n \in NodeNames |->
                                IF n \in node_names THEN "spawned" ELSE "none"]]

\* The greenlet of node n from its start to its return or to the request of
\* node_interface.properties: _set_chain_properties returns at once when
\* self.chain_properties is a SubstrateChainProperties, and the node is put
\* in the map.
ConnectNodeBegins(n) ==
    /\ calc.pc[n] = "spawned"
    /\ calc' = IF calc.chain_properties # NoProperties
               THEN [calc EXCEPT
                        !.pc[n] = "done",
                        !.connected_nodes = Append(@, n)]
               ELSE [calc EXCEPT !.pc[n] = "properties"]
    /\ CalcFrame

\* The request of the properties is answered: `self.chain_properties =
\* self._get_chain_properties(node_interface)` and the rest of _connect_node.
ChainPropertiesAnswered(n) ==
    /\ calc.pc[n] = "properties"
    /\ calc.answers[n] \in ChainProperties
    /\ calc' = [calc EXCEPT
                    !.pc[n] = "done",
                    !.chain_properties = calc.answers[n],
                    !.assigned = @ + 1,
                    !.connected_nodes = Append(@, n)]
    /\ CalcFrame

\* The request fails: RemoteError, `return False, message`.
ChainPropertiesFailed(n) ==
    /\ calc.pc[n] = "properties"
    /\ calc.answers[n] \notin ChainProperties
    /\ calc' = [calc EXCEPT !.pc[n] = "failed"]
    /\ CalcFrame

NextConnections ==
    \/ \E n \in NodeNames : ConnectNodeBegins(n)
    \/ \E n \in NodeNames : ChainPropertiesAnswered(n)
    \/ \E n \in NodeNames : ChainPropertiesFailed(n)

SpecConnections == InitConnections /\ [][NextConnections]_vars

\* ------------------------------------------------------------- claims
RunningDBWriters(c) ==
    {w \in WriterObjs : dbwriters[w].chain = c /\ dbwriters[w].task = "running"}
RunningIndexers == {i \in IndexerObjs : indexers[i].task = "running"}
Disconnects(s) == s \in connected /\ s \notin connected'
\* the session s owns the DBWriter registered for the chain c
OwnsDBWriterOf(s, c) ==
    /\ substrate_chain_to_dbwriter[c] # None
    /\ dbwriters[substrate_chain_to_dbwriter[c]].sid = s
FailedDBWriters(s) ==
    {w \in WriterObjs : dbwriters[w].state = "failed" /\ dbwriters[w].sid = s}
FailedIndexers(s) ==
    {i \in IndexerObjs : indexers[i].state = "failed" /\ indexers[i].sid = s}
Records(q) == {q[k] : k \in 1..Len(q)}

\* C1: in every reachable state a chain has at most one DBWriter instance
\* with a running task, also when two start_indexer handlers interleave at
\* the node connection inside the DBWriter constructor.
C1_OneDBWriterPerChain ==
    \A c \in Chains : Cardinality(RunningDBWriters(c)) <= 1

\* C2: the disconnect of a session A kills no DBWriter task of another
\* session, and no Indexer task of another session unless A owns the
\* DBWriter of that Indexer's chain.
C2_SessionIsolation ==
    [][\A s \in Sids : Disconnects(s) =>
        /\ \A w \in WriterObjs :
            (dbwriters[w].sid # s /\ dbwriters[w].task = "running")
                => dbwriters'[w].task = "running"
        /\ \A i \in IndexerObjs :
            (indexers[i].sid # s /\ indexers[i].task = "running"
                /\ ~OwnsDBWriterOf(s, indexers[i].chain))
                => indexers'[i].task = "running"]_vars

\* C3: when the disconnect handler of a session S has run, no Indexer or
\* DBWriter of S is registered, no task of S is running, and the database of
\* every DBWriter of S is disconnected.
C3_DisconnectCleanup ==
    [][\A s \in Sids : Disconnects(s) =>
        /\ \A id \in DOMAIN indexer_id_to_indexer' :
            indexer_id_to_indexer'[id] # None => indexers'[indexer_id_to_indexer'[id]].sid # s
        /\ \A id \in DOMAIN dbwriter_id_to_dbwriter' :
            dbwriter_id_to_dbwriter'[id] # None => dbwriters'[dbwriter_id_to_dbwriter'[id]].sid # s
        /\ \A c \in Chains :
            substrate_chain_to_dbwriter'[c] # None
                => dbwriters'[substrate_chain_to_dbwriter'[c]].sid # s
        /\ \A i \in IndexerObjs : indexers'[i].sid = s => indexers'[i].task # "running"
        /\ \A w \in WriterObjs : dbwriters'[w].sid = s =>
            /\ dbwriters'[w].task # "running"
            /\ dbwriters'[w].state = "built" => dbwriters'[w].database = "closed"]_vars

\* C4: every running Indexer task of a chain has a registered DBWriter of
\* that chain whose task is running and which consumes the Indexer's queue.
C4_WriterBeforeIndexer ==
    \A i \in RunningIndexers :
        LET w == substrate_chain_to_dbwriter[indexers[i].chain]
        IN  /\ w # None
            /\ dbwriters[w].task = "running"
            /\ indexers[i].queue = w

\* C5: a start_indexer request for a chain that has a registered DBWriter is
\* answered with server_error start_indexer_0002 and changes nothing else:
\* counters, registries, queues, objects and tasks stay as they were.
C5_DuplicateWriterRefused ==
    [][\A s \in Sids, c \in Chains :
        (/\ received'[s]["start_indexer"] = received[s]["start_indexer"] + 1
         /\ substrate_chain_to_dbwriter[c] # None)
        => /\ emitted' = [emitted EXCEPT ![s]["start_indexer_0002"] = @ + 1]
           /\ UNCHANGED <<mgr_vars, indexers, dbwriters, queue, db>>]_vars

\* C5 witness: a session was refused (it has more start_indexer_0002 errors
\* than failed constructions) while the chain has a registered DBWriter.
C5_Witness ==
    \E s \in Sids, c \in Chains :
        /\ substrate_chain_to_dbwriter[c] # None
        /\ emitted[s]["start_indexer_0002"] > Cardinality(FailedDBWriters(s))

\* C6: a start_indexing request for a chain without a registered queue and
\* DBWriter is answered with server_error start_indexing_0002 and changes
\* nothing else: no Indexer object, no task, counters and registries as before.
C6_IndexerWithoutWriterRefused ==
    [][\A s \in Sids, c \in Chains :
        (/\ received'[s]["start_indexing"] = received[s]["start_indexing"] + 1
         /\ (substrate_chain_to_queue[c] = None \/ substrate_chain_to_dbwriter[c] = None))
        => /\ emitted' = [emitted EXCEPT ![s]["start_indexing_0002"] = @ + 1]
           /\ UNCHANGED <<mgr_vars, indexers, dbwriters, queue, db>>]_vars

\* C6 witness: a session was refused an Indexer while no DBWriter is registered.
C6_Witness ==
    \E s \in Sids, c \in Chains :
        /\ substrate_chain_to_dbwriter[c] = None
        /\ emitted[s]["start_indexing_0002"] > Cardinality(FailedIndexers(s))
        /\ \A i \in IndexerObjs : indexers[i].state = "none"

\* C7: the block numbers of the records one Indexer has put on the queue are
\* strictly increasing, whatever the failures of the block requests.
C7_BlocksEnqueuedInOrder ==
    \A i \in IndexerObjs :
        \A k \in 1..(Len(indexers[i].put) - 1) :
            indexers[i].put[k].block_number < indexers[i].put[k + 1].block_number

\* C7 witness: an Indexer has put several records and is retrying a block
\* request that failed.
C7_Witness ==
    \E i \in IndexerObjs :
        /\ Len(indexers[i].put) >= 3
        /\ indexers[i].task = "running"
        /\ indexers[i].retries_left < REQUEST_BLOCK_RETRY_TIMES

\* C8: every extrinsic of a record put on the queue has a hash, contains a
\* transaction and is signed by the public key of the Indexer's address.
C8_FilterCorrectness ==
    \A i \in IndexerObjs :
        \A data \in Records(indexers[i].put) :
            \A x \in Records(data.extrinsics) :
                /\ x.extrinsic_hash # NoHash
                /\ x.contains_transaction = TRUE
                /\ x.signer = PublicKey(indexers[i].address)

\* C9: every record an Indexer has put on the queue is still in the queue or
\* its extrinsics are in the DB.
C9_NoLossOfQueuedItems ==
    \A i \in IndexerObjs :
        \A data \in Records(indexers[i].put) :
            \/ data \in Records(queue[indexers[i].queue])
            \/ \A x \in Records(data.extrinsics) :
                \E row \in Records(db) :
                    UniqueKey(row) = <<"Kusama", data.block_number, x.index>>

\* C10: the DB holds at most one row per (chain_id, block_number, extrinsic_index).
C10_UniqueRows ==
    \A k1, k2 \in 1..Len(db) : UniqueKey(db[k1]) = UniqueKey(db[k2]) => k1 = k2

\* C10 witness: a DBWriter has committed a batch that held the records two
\* Indexers of the same address have put for the same block.
C10_Witness ==
    /\ db # <<>>
    /\ \E i, j \in IndexerObjs, w \in WriterObjs :
        /\ i # j
        /\ indexers[i].address = indexers[j].address
        /\ indexers[i].queue = w /\ indexers[j].queue = w
        /\ dbwriters[w].task = "running" /\ dbwriters[w].count = 0
        /\ \E di \in Records(indexers[i].put), dj \in Records(indexers[j].put) :
            /\ di.block_number = dj.block_number
            /\ di \notin Records(queue[w])
            /\ dj \notin Records(queue[w])

\* a DBWriter writes its batch to the DB in this step
CommitsBatch(w) ==
    /\ dbwriters[w].count = MAX_NUMBER_QUEUE_ITEMS_TO_PROCESS
    /\ dbwriters'[w].count = 0

\* C11: writing to the DB the batch a DBWriter has just written leaves the DB
\* as it is, also when the extrinsics of the second delivery carry another
\* fee: the fee of a row is the fee of its first insert.
C11_Idempotence ==
    [][\A w \in WriterObjs : CommitsBatch(w) =>
        LET batch == dbwriters[w].all_substrate_extrinsics
            other == [k \in 1..Len(batch) |-> WithFee(batch[k], <<1, 0>>)]
        IN  /\ add_substrate_extrinsics(db', batch) = db'
            /\ add_substrate_extrinsics(db', other) = db']_vars

\* C11 witness: a DBWriter has written a batch of ten records to the DB.
C11_Witness ==
    \E w \in WriterObjs :
        /\ dbwriters[w].task = "running"
        /\ dbwriters[w].count = 0
        /\ Len(db) >= MAX_NUMBER_QUEUE_ITEMS_TO_PROCESS
        /\ \A k \in 1..Len(db) : db[k].fee # <<1, 0>>

DBWritersOf(s, state) == {w \in WriterObjs : dbwriters[w].sid = s /\ dbwriters[w].state = state}
IndexersOf(s, state) == {i \in IndexerObjs : indexers[i].sid = s /\ indexers[i].state = state}

\* C13: a session has got one server_success for each of its requests whose
\* Manager call returned, one <event>_0001 for each of its payloads that did
\* not deserialize and one <event>_0002 for each other request that is not
\* still being handled: one message per request, none for requests of others.
C13_OneReplyPerRequest ==
    \A s \in Sids :
        /\ emitted[s]["start_indexer_0001"] = received[s]["start_indexer_bad"]
        /\ emitted[s]["start_indexing_0001"] = received[s]["start_indexing_bad"]
        /\ emitted[s]["server_success_start_indexer"] = Cardinality(DBWritersOf(s, "built"))
        /\ emitted[s]["server_success_start_indexing"] = Cardinality(IndexersOf(s, "built"))
        /\ emitted[s]["start_indexer_0002"]
              = received[s]["start_indexer"] - Cardinality(DBWritersOf(s, "built"))
                    - Cardinality(DBWritersOf(s, "init"))
        /\ emitted[s]["start_indexing_0002"]
              = received[s]["start_indexing"] - Cardinality(IndexersOf(s, "built"))
                    - Cardinality(IndexersOf(s, "init"))

\* C13 witness: one session has got a server_success, a start_indexer_0001
\* and a start_indexer_0002 while the other session is connected.
C13_Witness ==
    /\ connected = Sids
    /\ \E s \in Sids :
        /\ emitted[s]["server_success_start_indexer"] = 1
        /\ emitted[s]["start_indexer_0001"] = 1
        /\ emitted[s]["start_indexer_0002"] = 1

\* the session s sends a payload that does not deserialize, in this step
SendsMalformed(s, event) ==
    \/ received'[s][event \o "_bad"] = received[s][event \o "_bad"] + 1
    \/ received'[s][event \o "_unexpected"] = received[s][event \o "_unexpected"] + 1

\* C14: a start_indexer or start_indexing payload that does not deserialize
\* (a missing key, a chain_id of no supported chain, a bad block number or
\* address) gets its <event>_0001 error, the server keeps running and the
\* running tasks keep running.
C14_DecodeErrorsNotFatal ==
    [][\A s \in Sids, event \in {"start_indexer", "start_indexing"} :
        SendsMalformed(s, event) =>
            /\ emitted' = [emitted EXCEPT ![s][event \o "_0001"] = @ + 1]
            /\ server' = "running"
            /\ \A i \in IndexerObjs :
                    indexers[i].task = "running" => indexers'[i].task = "running"
            /\ \A w \in WriterObjs :
                    dbwriters[w].task = "running" => dbwriters'[w].task = "running"]_vars

\* C15: a start_indexing payload whose block_number_start_at is not an
\* integer greater than zero, or whose address is not a valid address of its
\* chain, is answered with start_indexing_0001; an accepted payload has a
\* start block greater than zero and the public key of its address.
C15_StartIndexingValidation ==
    (calc.op = "start_indexing" /\ calc.result # "") =>
        LET data == calc.payload
            block_ok == /\ data.block_number_start_at[1] = "int"
                        /\ data.block_number_start_at[2] > 0
            address_bad == /\ data.chain_id # Missing
                           /\ IsKusamaChainId(data.chain_id)
                           /\ ~is_valid_substrate_address(data.address)
        IN  /\ (~block_ok \/ address_bad) => calc.result = "start_indexing_0001"
            /\ calc.result = "accepted" =>
                    /\ calc.block_number_start_at > 0
                    /\ calc.address_public_key = PublicKey(StrOf(data.address))

\* the task of the Indexer ends by itself in this step
IndexerReturns(i) == indexers[i].task = "running" /\ indexers'[i].task = "ended"

\* C16: when the task of an Indexer ends because a block could not be fetched
\* (RemoteError after the retries) or decoded (DeserializationError), exactly
\* one server_error get_address_block_extrinsics_data_0001 goes to the
\* Indexer's session and nothing else is emitted, no queue changes, and the
\* Indexer's cursor and the records it has put stay as they are; a task that
\* has ended never runs, advances or puts again.
C16_IndexerFatalError ==
    [][\A i \in IndexerObjs :
        /\ IndexerReturns(i) =>
            /\ emitted' = [emitted EXCEPT
                    ![indexers[i].sid]["get_address_block_extrinsics_data_0001"] = @ + 1]
            /\ queue' = queue
            /\ indexers'[i].block_number = indexers[i].block_number
            /\ indexers'[i].put = indexers[i].put
            /\ \A data \in Records(indexers[i].put) :
                    data.block_number < indexers[i].block_number
        /\ indexers[i].task = "ended" =>
            /\ indexers'[i].task = "ended"
            /\ indexers'[i].block_number = indexers[i].block_number
            /\ indexers'[i].put = indexers[i].put]_vars

\* C16 witness: the task of an Indexer has ended after the retries of a block
\* request, its session has the error once, and a record it had put before
\* is still in the queue.
C16_Witness ==
    \E i \in IndexerObjs :
        /\ indexers[i].task = "ended"
        /\ indexers[i].retries_left = 0
        /\ emitted[indexers[i].sid]["get_address_block_extrinsics_data_0001"] = 1
        /\ \E data \in Records(indexers[i].put) : data \in Records(queue[indexers[i].queue])

\* the extrinsics of the record are rows of the DB
Persisted(data) ==
    \A x \in Records(data.extrinsics) :
        \E row \in Records(db) : UniqueKey(row) = <<"Kusama", data.block_number, x.index>>

\* the Indexers that put on the queue of the DBWriter w
Feeds(w) == {i \in IndexerObjs : indexers[i].state # "none" /\ indexers[i].queue = w}

\* every Indexer of the queue has stopped, the DBWriter is running and a
\* record put on its queue is not in the DB
Stranded(w) ==
    /\ dbwriters[w].task = "running"
    /\ \A i \in Feeds(w) : indexers[i].task \in {"ended", "killed"}
    /\ \E i \in Feeds(w) : \E data \in Records(indexers[i].put) : ~Persisted(data)

\* the DBWriter has stopped, or an Indexer puts on its queue again, or every
\* record put on its queue is in the DB
Settled(w) ==
    \/ dbwriters[w].task # "running"
    \/ \E i \in Feeds(w) : indexers[i].task \notin {"ended", "killed"}
    \/ \A i \in Feeds(w) : \A data \in Records(indexers[i].put) : Persisted(data)

\* C17: when the Indexers of a queue have stopped and left records that are
\* not in the DB, then as long as the DBWriter of the queue keeps running (no
\* receipt or DB call fails, nobody kills it) every record put on the queue
\* gets into the DB, however few records the queue holds.
C17_EventualPersistence ==
    \A w \in WriterObjs : Stranded(w) ~> Settled(w)

\* Manager.shutdown() returns in this step
ShutdownReturns == server = "running" /\ server' = "stopped"

\* C18: when Manager.shutdown() has returned, no Indexer task and no DBWriter
\* task of any session is running, and the database of every DBWriter that
\* was registered when it was called, or is registered now, is disconnected.
C18_ShutdownStopsEverything ==
    [][ShutdownReturns =>
        /\ \A i \in IndexerObjs : indexers'[i].task # "running"
        /\ \A w \in WriterObjs : dbwriters'[w].task # "running"
        /\ \A w \in RegisteredDBWriters : dbwriters'[w].database = "closed"
        /\ \A w \in RegisteredDBWriters' : dbwriters'[w].database = "closed"]_vars

\* C18 witness: the server has stopped while an Indexer task was running and
\* a registered DBWriter's task had ended before; the one is killed and the
\* database of the other is disconnected.
C18_Witness ==
    /\ server = "stopped"
    /\ \E i \in IndexerObjs : indexers[i].task = "killed"
    /\ \E w \in RegisteredDBWriters :
        /\ dbwriters[w].task = "ended"
        /\ dbwriters[w].database = "closed"

\* the places of last_stop that hold an entry of the kind
Places(what) == {k \in 1..Len(last_stop) : last_stop[k][1] = what}

\* C19: in the last stop_sid_tasks every kill of an Indexer task comes before
\* every kill of a DBWriter task, every disconnect of a database comes after
\* every kill and the task of its DBWriter is not running; and no running
\* DBWriter task has a disconnected database.
C19_StopOrder ==
    /\ \A j \in Places("kill_indexer"), k \in Places("kill_dbwriter") : j < k
    /\ \A j \in Places("kill_indexer") \cup Places("kill_dbwriter"),
          k \in Places("disconnect") : j < k
    /\ \A k \in Places("disconnect") : dbwriters[last_stop[k][2]].task # "running"
    /\ \A w \in WriterObjs :
            dbwriters[w].task = "running" => dbwriters[w].database = "open"

\* C19 witness: a session has disconnected while the server runs; an Indexer
\* task and a DBWriter task were killed and the database of that DBWriter
\* was disconnected.
C19_Witness ==
    /\ server = "running"
    /\ Places("kill_indexer") # {}
    /\ \E j \in Places("kill_dbwriter"), k \in Places("disconnect") :
            last_stop[j][2] = last_stop[k][2]

\* the task of the DBWriter ends by itself in this step
DBWriterReturns(w) == dbwriters[w].task = "running" /\ dbwriters'[w].task = "ended"

\* the step leaves the server and every task but the DBWriter's running
Contained(w) ==
    /\ server' = server
    /\ connected' = connected
    /\ \A i \in IndexerObjs : indexers'[i].task = indexers[i].task
    /\ \A v \in WriterObjs \ {w} : dbwriters'[v].task = dbwriters[v].task

\* C20: when the task of a DBWriter ends because a receipt could not be got
\* (RemoteError) or the DB write failed, a message is emitted to the session
\* that owns the DBWriter, and the server, the clients and all other tasks
\* stay as they are.
C20_WriterFailureSurfaced ==
    [][\A w \in WriterObjs : DBWriterReturns(w) =>
        /\ emitted'[dbwriters[w].sid] # emitted[dbwriters[w].sid]
        /\ Contained(w)]_vars

\* The containment alone: it holds.
WriterFailureContained ==
    [][\A w \in WriterObjs : DBWriterReturns(w) => Contained(w)]_vars

\* C21: some ceiling, of those up to MaxCeiling, bounds the length of every
\* queue in every reachable state: an Indexer that meets a full queue waits
\* with its put until the DBWriter has taken records off.
C21_BackPressure ==
    \E ceiling \in 1..MaxCeiling : \A w \in WriterObjs : Len(queue[w]) <= ceiling

\* the block timestamps of the rows of the batch that belong to the address
BatchTimestamps(batch, address) ==
    {batch[k].block_timestamp : k \in {j \in 1..Len(batch) : batch[j].address = address}}

\* C22: when a DBWriter has written a batch to the DB, the query range of
\* every address of the batch is stored, its start is at most the smallest
\* and its end at least the greatest block timestamp the address has in the
\* batch, a range stored before is contained in it, and end >= start.
C22_QueryRangeLedger ==
    [][\A w \in WriterObjs : CommitsBatch(w) =>
        LET batch == dbwriters[w].all_substrate_extrinsics
        IN  \A address \in Addresses :
                BatchTimestamps(batch, address) # {} =>
                    LET range == used_query_ranges'[address]
                        before == used_query_ranges[address]
                    IN  /\ range # NoRange
                        /\ range[1] <= range[2]
                        /\ \A ts \in BatchTimestamps(batch, address) :
                                range[1] <= ts /\ ts <= range[2]
                        /\ before # NoRange =>
                                range[1] <= before[1] /\ before[2] <= range[2]]_vars

\* the records of the blocks first..last the Indexer has put
PutOf(i, first, last) ==
    {data \in Records(indexers'[i].put) : first <= data.block_number /\ data.block_number <= last}

PlacesOf(items, node) == {k \in 1..Len(items) : items[k].node = node}

\* C24: _get_nodes_call_order returns every item of the map of available
\* nodes exactly once, the own node first when it is in the map, whatever its
\* weight_block, and the other nodes behind it with weight_block descending;
\* the map is as it was.
C24_NodesCallOrder ==
    (calc.op = "call_order" /\ calc.result # "") =>
        LET order == calc.nodes_sorted
            first == IF PlacesOf(calc.given, OWN) # {} THEN 2 ELSE 1
        IN  /\ Len(order) = Len(calc.given)
            /\ \A k \in 1..Len(calc.given) :
                    \E j \in 1..Len(order) :
                        /\ order[j] = calc.given[k]
                        /\ PlacesOf(order, calc.given[k].node) = {j}
            /\ PlacesOf(calc.given, OWN) # {} => order[1].node = OWN
            /\ \A j, k \in first..Len(order) :
                    j < k => order[j].weight_block >= order[k].weight_block
            /\ calc.available = calc.given

\* C24 witness: the own node has the lowest weight_block of four nodes and is
\* first in the result; the map held it last and the others unsorted.
C24_Witness ==
    /\ calc.op = "call_order" /\ calc.result = "returned"
    /\ Len(calc.given) = 4
    /\ calc.given[4].node = OWN /\ calc.given[4].weight_block = 0
    /\ calc.given[1].weight_block = 1 /\ calc.given[2].weight_block = 2
    /\ calc.given[3].weight_block = 1
    /\ calc.nodes_sorted[1].node = OWN

\* the nodes of the call order, in their order
NodesInOrder(map) ==
    LET order == _get_nodes_call_order(map) IN [k \in 1..Len(order) |-> order[k].node]

\* C25: the decorated method is called on the nodes of the call order, one
\* after the other from the first; the result returned is that of the first
\* node that does not raise RemoteError and no node behind it is called; when
\* every node raises, RemoteError names all nodes; when the map is empty,
\* RemoteError is raised and the method is not called.
C25_Failover ==
    calc.op = "request" =>
        LET nodes == NodesInOrder(calc.given)
        IN  /\ Len(calc.called) <= Len(nodes)
            /\ calc.called = SubSeq(nodes, 1, Len(calc.called))
            /\ calc.result = "returned" =>
                    /\ calc.called # <<>>
                    /\ calc.by = calc.called[Len(calc.called)]
                    /\ calc.by \notin calc.failing
                    /\ \A k \in 1..(Len(calc.called) - 1) : calc.called[k] \in calc.failing
            /\ calc.result = "RemoteError" =>
                    /\ calc.called = nodes
                    /\ calc.requested_nodes = nodes
                    /\ \A k \in 1..Len(nodes) : nodes[k] \in calc.failing
            /\ (calc.result # "" /\ nodes = <<>>) =>
                    calc.result = "RemoteError" /\ calc.called = <<>>
            /\ calc.result = "" =>
                    \A k \in 1..Len(calc.called) : calc.called[k] \in calc.failing

\* C25 witness: of four nodes the first two of the call order raised
\* RemoteError, the third gave the result and the fourth was not called.
C25_Witness ==
    /\ calc.op = "request" /\ calc.result = "returned"
    /\ Len(calc.given) = 4
    /\ Len(calc.called) = 3
    /\ calc.by = calc.called[3]
    /\ Len(calc.requested_nodes) = 2

\* _connect_node has added its node to the map
Added == calc.available # calc.given
\* the node was in the map before the call
AlreadyConnected == calc.node \in NodesOf(calc.given)
\* what the node gave: an interface, the chain id of the configured chain, a
\* last block and, unless the manager has them already, the chain properties
NodeIsGood ==
    /\ calc.interface = "ok"
    /\ calc.chain_id = "Kusama"
    /\ calc.last_block[1] = "ok"
    /\ calc.chain_properties_set \/ calc.properties = "ok"
\* the explorer's last block is more than blocks_threshold above the node's
NodeLags ==
    /\ calc.metadata[1] = "ok"
    /\ calc.metadata[2] - calc.last_block[2] > blocks_threshold
\* the request to the explorer failed
SyncNotVerified == calc.metadata[1] = "RemoteError"

\* What holds of every call of _connect_node: a node is added only when it
\* is good, with its last block as weight; a good node that lags or whose
\* synchronization could not be verified is added with one warning; a node
\* that is in the map already changes nothing.
AdmissionRules ==
    /\ Added =>
            /\ ~AlreadyConnected /\ NodeIsGood
            /\ calc.result = "True"
            /\ calc.available =
                    Append(calc.given, [node |-> calc.node, weight_block |-> calc.last_block[2]])
    /\ (~AlreadyConnected /\ NodeIsGood /\ (NodeLags \/ SyncNotVerified)) =>
            Added /\ calc.warnings = 1
    /\ (Added /\ ~NodeLags /\ ~SyncNotVerified) => calc.warnings = 0
    /\ AlreadyConnected => ~Added /\ calc.result = "True, already connected"

CallsNode(i) ==
    /\ indexers[i].task = "running"
    /\ indexers'[i].task \in {"running", "ended"}
    /\ indexers'[i] # indexers[i]

\* C27: an Indexer calls get_block_extrinsics at most three times for a
\* block (1 + REQUEST_BLOCK_RETRY_TIMES); a call that succeeds, after at
\* most two that failed, moves the cursor by one and puts the one record of a
\* matching block; a call that fails leaves cursor, records and queues as
\* they are; RemoteError ends the task only with the third failed call.
C27_BlockFetchRetry ==
    [][\A i \in IndexerObjs : CallsNode(i) =>
        LET n == indexers[i].block_number
            matching == address_block_extrinsics(n, PublicKey(indexers[i].address)) # <<>>
        IN  /\ indexers[i].calls < 1 + REQUEST_BLOCK_RETRY_TIMES
            /\ indexers'[i].calls <= 1 + REQUEST_BLOCK_RETRY_TIMES
            /\ indexers'[i].block_number # n =>
                    /\ indexers'[i].block_number = n + 1
                    /\ indexers'[i].last_calls = indexers[i].calls + 1
                    /\ indexers'[i].last_calls <= 1 + REQUEST_BLOCK_RETRY_TIMES
                    /\ Cardinality({k \in 1..Len(indexers'[i].put) :
                                        indexers'[i].put[k].block_number = n})
                            = IF matching THEN 1 ELSE 0
            /\ indexers'[i].block_number = n =>
                    /\ indexers'[i].calls = indexers[i].calls + 1
                    /\ indexers'[i].put = indexers[i].put
                    /\ queue' = queue
            /\ indexers'[i].error = "RemoteError" =>
                    indexers'[i].calls = 1 + REQUEST_BLOCK_RETRY_TIMES]_vars

\* C27 witness: the first request of block 1 failed and the second succeeded:
\* the Indexer is at block 2 and has put exactly the record of block 1.
C27_Witness ==
    \E i \in IndexerObjs :
        /\ indexers[i].task = "running"
        /\ indexers[i].block_number = 2
        /\ indexers[i].last_calls = 2
        /\ Len(indexers[i].put) = 1
        /\ indexers[i].put[1].block_number = 1

\* the call of get_block_extrinsics of this step raised exception e
FailedCall(i, e) ==
    /\ CallsNode(i)
    /\ indexers'[i].block_number = indexers[i].block_number
    /\ indexers'[i].error # "DeserializationError"
    /\ indexers'[i].caught = e

\* C28: a call of get_block_extrinsics that raises ValueError (the response
\* does not decode) is not retried: it is the only call for its block and
\* the fetch fails with it.
C28_RetryPredicate ==
    [][\A i \in IndexerObjs : FailedCall(i, "ValueError") =>
        /\ indexers'[i].task = "ended"
        /\ indexers'[i].error = "RemoteError"
        /\ indexers'[i].calls = 1]_vars

\* C29: a DBWriter raises RemoteError for a receipt it could not get only
\* after 1 + REQUEST_RECEIPT_DATA_TIMES requests of that receipt: a request
\* that fails once or twice is made again.
C29_ReceiptRetry ==
    [][\A w \in WriterObjs :
        DBWriterReturns(w) /\ dbwriters'[w].failure = "receipt" =>
            dbwriters'[w].receipt_calls = 1 + REQUEST_RECEIPT_DATA_TIMES]_vars

\* the DBWriter takes an item off its queue in this step
Dequeues(w) ==
    /\ dbwriters[w].task = "running"
    /\ dbwriters'[w] # dbwriters[w]
    /\ Len(queue'[w]) < Len(queue[w])

\* the DBWriter is in the for loop of a pass, before its next get
InPass(w) ==
    /\ dbwriters[w].task = "running"
    /\ dbwriters[w].count > 0
    /\ dbwriters[w].count < MAX_NUMBER_QUEUE_ITEMS_TO_PROCESS

\* C30: a DBWriter takes the first item of a pass only off a queue of at least
\* MIN_NUMBER_QUEUE_ITEMS_BEFORE_PROCESS items; it takes the items from the
\* head of the queue, one at a time, at most MAX_NUMBER_QUEUE_ITEMS_TO_PROCESS
\* in a pass, and appends their extrinsics in that order; the pass ends with
\* one add_substrate_extrinsics of all its extrinsics; and the queue of a
\* DBWriter inside a pass is never empty, so its get does not wait.
C30_BatchThresholds ==
    /\ [](\A w \in WriterObjs :
            /\ dbwriters[w].count <= MAX_NUMBER_QUEUE_ITEMS_TO_PROCESS
            /\ InPass(w) => Len(queue[w]) > 0)
    /\ [][\A w \in WriterObjs :
            /\ Dequeues(w) =>
                /\ dbwriters[w].count = 0 =>
                        Len(queue[w]) >= MIN_NUMBER_QUEUE_ITEMS_BEFORE_PROCESS
                /\ queue'[w] = Tail(queue[w])
                /\ dbwriters'[w].task = "running" =>
                    /\ dbwriters'[w].count = dbwriters[w].count + 1
                    /\ dbwriters'[w].all_substrate_extrinsics =
                            dbwriters[w].all_substrate_extrinsics \o
                            _deserialize_substrate_extrinsics(Head(queue[w]))
            /\ CommitsBatch(w) =>
                /\ db' = add_substrate_extrinsics(db, dbwriters[w].all_substrate_extrinsics)
                /\ dbwriters'[w].all_substrate_extrinsics = <<>>
                /\ queue' = queue]_vars

\* C30 witness: a DBWriter has written the extrinsics of a pass of ten items
\* and sleeps, its queue being shorter than the minimum.
C30_Witness ==
    \E w \in WriterObjs :
        /\ dbwriters[w].task = "running"
        /\ dbwriters[w].count = 0
        /\ Len(db) >= MAX_NUMBER_QUEUE_ITEMS_TO_PROCESS
        /\ Len(queue[w]) > 0
        /\ Len(queue[w]) < MIN_NUMBER_QUEUE_ITEMS_BEFORE_PROCESS

\* C31: an Indexer calls get_block_extrinsics only for a block the node has
\* (its number is at most the head), and every record it has put is of such
\* a block: with its cursor past the head it waits and makes no request.
C31_CatchUp ==
    /\ [](\A i \in IndexerObjs : \A k \in 1..Len(indexers[i].put) :
            indexers[i].put[k].block_number <= head)
    /\ [][\A i \in IndexerObjs : CallsNode(i) => indexers[i].block_number <= head]_vars

\* C32: an Indexer never moves its cursor past a block whose inherent carries
\* no timestamp that parses: the call that fetched such a block ends the task
\* with DeserializationError, whether or not the block has an extrinsic that
\* passes the filter; and no record of such a block is put.
C32_MalformedInherent ==
    /\ [](\A i \in IndexerObjs : \A k \in 1..Len(indexers[i].put) :
            InherentTimestampOk(indexers[i].put[k].block_number))
    /\ [][\A i \in IndexerObjs :
            CallsNode(i) /\ indexers'[i].block_number # indexers[i].block_number =>
                InherentTimestampOk(indexers[i].block_number)]_vars

\* C33: chain_properties is assigned at most once while the greenlets of
\* _attempt_connections run, and once it is set it keeps its value.
C33_ChainPropertiesSetOnce ==
    /\ [](calc.assigned <= 1)
    /\ [][calc.chain_properties # NoProperties =>
            calc'.chain_properties = calc.chain_properties]_vars

\* the call of set_rpc_endpoint has returned (True, message)
ReturnedTrue == calc.result \in {"True", "True, already connected", "True, ''"}

\* C34: after set_rpc_endpoint(e) with a non-empty e has returned (True, _)
\* the own node of the map is connected to e and own_rpc_endpoint is e;
\* set_rpc_endpoint('') returns (True, '') and leaves the map without the
\* own node and with its other nodes as they were.
C34_SetRpcEndpoint ==
    calc.op = "set_rpc_endpoint" /\ calc.result # "" =>
        /\ calc.endpoint # "" /\ ReturnedTrue =>
            /\ OWN \in NodesOf(calc.available)
            /\ calc.own_interface_url = _format_own_rpc_endpoint(calc.endpoint)
            /\ calc.own_rpc_endpoint = _format_own_rpc_endpoint(calc.endpoint)
        /\ calc.endpoint = "" =>
            /\ calc.result = "True, ''"
            /\ OWN \notin NodesOf(calc.available)
            /\ calc.available = Pop(calc.given, OWN)

\* an exception leaves the handler of a request of the session s in this step
HandlerRaises(s) ==
    \/ received'[s]["start_indexer_unexpected"] # received[s]["start_indexer_unexpected"]
    \/ received'[s]["start_indexing_unexpected"] # received[s]["start_indexing_unexpected"]

\* C35: when an exception has left the handler of a request, the client that
\* sent it is disconnected, the server is stopped, no Indexer task and no
\* DBWriter task is running, and the database of every DBWriter that was
\* built is disconnected.
C35_UnhandledErrorShutsDown ==
    [][\A s \in Sids : HandlerRaises(s) =>
        /\ s \notin connected'
        /\ server' = "stopped"
        /\ \A i \in IndexerObjs : indexers'[i].task # "running"
        /\ \A w \in WriterObjs : dbwriters'[w].task # "running"
        /\ \A w \in WriterObjs :
                dbwriters'[w].state = "built" => dbwriters'[w].database = "closed"]_vars

\* C36: a chain none of whose DBWriters is in the registry of instances (its
\* DBWriter was stopped with the session that owned it, or none was made)
\* has no DBWriter and no queue registered: the next start_indexer for it is
\* not refused as a duplicate, and a start_indexing before that is refused.
C36_WriterRestart ==
    \A c \in Chains :
        (\A w \in RegisteredDBWriters : dbwriters[w].chain # c) =>
            /\ ~ChainHasDBWriter(c)
            /\ MissingQueueOrDBWriter(c)

\* C37: no two Indexers that were built have the same instance_id, and no
\* two DBWriters that were built have: no registration by instance id is
\* made over that of another instance.
C37_UniqueInstanceIds ==
    /\ \A i, j \in IndexerObjs :
            /\ indexers[i].state = "built" /\ indexers[j].state = "built"
            /\ indexers[i].instance_id = indexers[j].instance_id
            => i = j
    /\ \A v, w \in WriterObjs :
            /\ dbwriters[v].state = "built" /\ dbwriters[w].state = "built"
            /\ dbwriters[v].instance_id = dbwriters[w].instance_id
            => v = w

\* the records of block b among those the Indexer has put
RecordsOf(i, b) == {k \in 1..Len(indexers[i].put) : indexers[i].put[k].block_number = b}

\* C38: every block from the first block of an Indexer up to the one before
\* its cursor was fetched by a call that returned, and the Indexer has put
\* exactly one record of it when it holds an extrinsic that passes the
\* filter and none otherwise; a step moves the cursor by one or not at all.
C38_NoBlockSkipped ==
    /\ [](\A i \in IndexerObjs : indexers[i].state # "none" =>
            /\ indexers[i].block_number >= StartBlock(i)
            /\ \A b \in StartBlock(i)..(indexers[i].block_number - 1) :
                /\ b \in indexers[i].fetched
                /\ Cardinality(RecordsOf(i, b)) =
                        IF address_block_extrinsics(b, PublicKey(indexers[i].address)) # <<>>
                        THEN 1 ELSE 0)
    /\ [][\A i \in IndexerObjs : indexers[i].state # "none" =>
            \/ indexers'[i].block_number = indexers[i].block_number
            \/ indexers'[i].block_number = indexers[i].block_number + 1]_vars

\* C38 witness: an Indexer that began at block 1 is at block 7, behind
\* blocks with one, with two and with no extrinsic that passes the filter,
\* and has put the four records of blocks 1, 3, 5 and 6.
C38_Witness ==
    \E i \in IndexerObjs :
        /\ indexers[i].task = "running"
        /\ StartBlock(i) = 1
        /\ indexers[i].block_number = 7
        /\ Len(indexers[i].put) = 4

\* C39: database.disconnect() is called at most once for each DBWriter,
\* whatever calls of stop_sid_tasks and shutdown are made.
C39_DisconnectedOnce ==
    \A w \in WriterObjs : dbwriters[w].disconnects <= 1

\* the construction of the DBWriter w fails at the node connection in this step
DBWriterInitFails(w) == dbwriters[w].state = "init" /\ dbwriters'[w].state = "failed"

\* C40: when the construction of a DBWriter fails at the node connection,
\* the database it had opened is open no more, and the registries, the
\* queue of the chain, the counter of ids and the tracked tasks are as they
\* were.
C40_FailedCreationLeaksNothing ==
    [][\A w \in WriterObjs : DBWriterInitFails(w) =>
        /\ dbwriters'[w].database # "open"
        /\ dbwriters'[w].task = "none"
        /\ UNCHANGED mgr_vars]_vars

====
